---- MODULE Spec2Model ----
(***************************************************************************)
(* Model of crates/sui-config/src/genesis.rs: the genesis Builder, the     *)
(* Genesis bundle and the SerdeCompiledModule codec.                       *)
(***************************************************************************)
EXTENDS Integers, Sequences, FiniteSets, TLC

(***************************************************************************)
(* Bounds of the model.                                                    *)
(***************************************************************************)
\* Number of fluent builder calls made before build().
MaxCalls == 5

(***************************************************************************)
(* Option<T> and Result<T, E>.                                             *)
(***************************************************************************)
None == <<>>
Some(x) == <<x>>
is_some(o) == Len(o) = 1
unwrap(o) == o[1]

Ok(x) == [ok |-> TRUE, val |-> x]
Err(e) == [ok |-> FALSE, val |-> e]

(***************************************************************************)
(* Opaque values handed to the builder.  A CompiledModule is represented   *)
(* by the bytes of its tables.                                             *)
(***************************************************************************)
ModA == <<0>>
ModB == <<255>>
ModC == <<>>
ModD == <<65, 0>>
ModE == <<0, 255>>

GoodPath == "sui-framework/deps/move-stdlib"
BadPath == "no/such/dir"
Paths == {GoodPath, BadPath}

GroupArgs == { << <<ModD, ModE>> >>, << <<ModE>>, <<ModD>> >> }
Objects == {"o1", "o2"}
ObjectLists == { <<"o2", "o1">>, <<>> }
Contexts == {"ctx1", "ctx2"}
DefaultContext == "default_genesis_ctx"
ValidatorArgs == { <<"pk1", 1>>, <<"pk2", 7>> }

(***************************************************************************)
(* External collaborators of build().                                      *)
(***************************************************************************)
get_move_stdlib_modules(path) ==
    IF path = GoodPath THEN Ok(<<ModA, ModB>>) ELSE Err("load failure")

get_sui_framework_modules(path) ==
    IF path = GoodPath THEN Ok(<<ModC>>) ELSE Err("load failure")

get_genesis_context == DefaultContext

(***************************************************************************)
(* struct Builder and its fluent methods.                                  *)
(***************************************************************************)
Builder_default ==
    [ sui_framework  |-> None,
      move_framework |-> None,
      move_modules   |-> <<>>,
      objects        |-> <<>>,
      genesis_ctx    |-> None,
      validators     |-> <<>> ]

sui_framework(self, path) == [self EXCEPT !.sui_framework = Some(path)]

move_framework(self, path) == [self EXCEPT !.move_framework = Some(path)]

add_move_modules(self, modules) == [self EXCEPT !.move_modules = modules]

add_object(self, object) == [self EXCEPT !.objects = Append(@, object)]

add_objects_replace(self, objs) == [self EXCEPT !.objects = objs]

add_objects(self, objs) == [self EXCEPT !.objects = @ \o objs]

genesis_ctx_keep_first(self, ctx) ==
    IF is_some(self.genesis_ctx) THEN self
    ELSE [self EXCEPT !.genesis_ctx = Some(ctx)]

genesis_ctx(self, ctx) == [self EXCEPT !.genesis_ctx = Some(ctx)]

add_validator(self, public_key, stake) ==
    [self EXCEPT !.validators = Append(@, <<public_key, stake>>)]

(***************************************************************************)
(* Builder::build.  The result records how the call ended: "ok" with the   *)
(* Genesis value, or "panic" when an unwrap() hit None / Err.  The return  *)
(* type is Genesis, so no error value can be returned ("err" never         *)
(* occurs).  provider_calls counts calls of get_genesis_context.           *)
(***************************************************************************)
Panic(msg) == [kind |-> "panic", error |-> msg, genesis |-> None, provider_calls |-> 0]

Built(modules, objects, ctx, n) ==
    [ kind |-> "ok", error |-> "",
      genesis |-> Some([modules |-> modules, objects |-> objects, genesis_ctx |-> ctx]),
      provider_calls |-> n ]

Pending == [kind |-> "pending", error |-> "", genesis |-> None, provider_calls |-> 0]

build_with_validators(self) ==
    IF ~is_some(self.move_framework) THEN Panic("unwrap on None")
    ELSE LET move_modules == get_move_stdlib_modules(unwrap(self.move_framework)) IN
    IF ~move_modules.ok THEN Panic("unwrap on Err")
    ELSE IF ~is_some(self.sui_framework) THEN Panic("unwrap on None")
    ELSE LET sui_modules == get_sui_framework_modules(unwrap(self.sui_framework)) IN
    IF ~sui_modules.ok THEN Panic("unwrap on Err")
    ELSE LET modules == <<move_modules.val, sui_modules.val>> \o self.move_modules IN
         IF is_some(self.genesis_ctx)
         THEN Built(modules, self.objects \o self.validators, unwrap(self.genesis_ctx), 0)
         ELSE Built(modules, self.objects \o self.validators, get_genesis_context, 1)

build_default_on_missing(self) ==
    LET move_modules == IF is_some(self.move_framework)
                        THEN get_move_stdlib_modules(unwrap(self.move_framework))
                        ELSE Ok(<<>>)
        sui_modules  == IF is_some(self.sui_framework)
                        THEN get_sui_framework_modules(unwrap(self.sui_framework))
                        ELSE Ok(<<>>)
    IN
    IF ~move_modules.ok \/ ~sui_modules.ok THEN Panic("unwrap on Err")
    ELSE LET modules == <<move_modules.val, sui_modules.val>> \o self.move_modules IN
         IF is_some(self.genesis_ctx)
         THEN Built(modules, self.objects, unwrap(self.genesis_ctx), 0)
         ELSE Built(modules, self.objects, get_genesis_context, 1)

build(self) ==
    IF ~is_some(self.move_framework) THEN Panic("unwrap on None")
    ELSE LET move_modules == get_move_stdlib_modules(unwrap(self.move_framework)) IN
    IF ~move_modules.ok THEN Panic("unwrap on Err")
    ELSE IF ~is_some(self.sui_framework) THEN Panic("unwrap on None")
    ELSE LET sui_modules == get_sui_framework_modules(unwrap(self.sui_framework)) IN
    IF ~sui_modules.ok THEN Panic("unwrap on Err")
    ELSE LET modules == <<move_modules.val, sui_modules.val>> \o self.move_modules IN
         IF is_some(self.genesis_ctx)
         THEN Built(modules, self.objects, unwrap(self.genesis_ctx), 0)
         ELSE Built(modules, self.objects, get_genesis_context, 1)

(***************************************************************************)
(* State.                                                                  *)
(*   builder   the Builder value being threaded through the fluent calls   *)
(*   twin      a second Builder receiving the same calls, except that      *)
(*             add_validator calls are made on either one independently    *)
(*   appended  every group passed to add_move_modules so far, in order     *)
(*   added     every object passed to add_object/add_objects, in order     *)
(*   last_ctx  argument of the latest genesis_ctx call, if any             *)
(*   calls     number of fluent calls made                                 *)
(*   outcome   how build() on builder ended; outcome2 likewise for twin    *)
(***************************************************************************)
VARIABLES builder, twin, appended, added, last_ctx, calls, outcome, outcome2

bvars == <<builder, twin, appended, added, last_ctx, calls, outcome, outcome2>>

(***************************************************************************)
(* base64ct::Base64: the standard alphabet with '=' padding.  Text is a    *)
(* sequence of ASCII codes, bytes are numbers in 0..255.                   *)
(***************************************************************************)
PadChar == 61

Base64_char(v) ==
    IF v < 26 THEN 65 + v
    ELSE IF v < 52 THEN 97 + (v - 26)
    ELSE IF v < 62 THEN 48 + (v - 52)
    ELSE IF v = 62 THEN 43
    ELSE 47

\* The 6-bit value of an alphabet character, -1 for any other character.
Base64_value(c) ==
    IF c >= 65 /\ c <= 90 THEN c - 65
    ELSE IF c >= 97 /\ c <= 122 THEN c - 97 + 26
    ELSE IF c >= 48 /\ c <= 57 THEN c - 48 + 52
    ELSE IF c = 43 THEN 62
    ELSE IF c = 47 THEN 63
    ELSE -1

RECURSIVE Base64_encode_string(_)
Base64_encode_string(bytes) ==
    LET n == Len(bytes) IN
    IF n = 0 THEN <<>>
    ELSE IF n = 1 THEN
        << Base64_char(bytes[1] \div 4),
           Base64_char((bytes[1] % 4) * 16),
           PadChar, PadChar >>
    ELSE IF n = 2 THEN
        << Base64_char(bytes[1] \div 4),
           Base64_char((bytes[1] % 4) * 16 + bytes[2] \div 16),
           Base64_char((bytes[2] % 16) * 4),
           PadChar >>
    ELSE
        << Base64_char(bytes[1] \div 4),
           Base64_char((bytes[1] % 4) * 16 + bytes[2] \div 16),
           Base64_char((bytes[2] % 16) * 4 + bytes[3] \div 64),
           Base64_char(bytes[3] % 64) >>
        \o Base64_encode_string(SubSeq(bytes, 4, n))

\* Number of trailing '=' among the last two characters.
Base64_padding(s) ==
    LET n == Len(s) IN
    IF n >= 2 /\ s[n] = PadChar /\ s[n - 1] = PadChar THEN 2
    ELSE IF n >= 1 /\ s[n] = PadChar THEN 1
    ELSE 0

\* Decodes the unpadded characters; canonical = TRUE rejects a last block
\* whose unused low bits are not zero.
RECURSIVE Base64_decode_blocks(_, _)
Base64_decode_blocks(u, canonical) ==
    LET n == Len(u)
        v(i) == Base64_value(u[i])
    IN
    IF n = 0 THEN Ok(<<>>)
    ELSE IF n = 1 THEN Err("invalid encoding")
    ELSE IF \E i \in 1..(IF n < 4 THEN n ELSE 4) : v(i) < 0 THEN Err("invalid encoding")
    ELSE IF n = 2 THEN
        IF canonical /\ v(2) % 16 # 0 THEN Err("invalid encoding")
        ELSE Ok(<< v(1) * 4 + v(2) \div 16 >>)
    ELSE IF n = 3 THEN
        IF canonical /\ v(3) % 4 # 0 THEN Err("invalid encoding")
        ELSE Ok(<< v(1) * 4 + v(2) \div 16, (v(2) % 16) * 16 + v(3) \div 4 >>)
    ELSE
        LET rest == Base64_decode_blocks(SubSeq(u, 5, n), canonical) IN
        IF ~rest.ok THEN rest
        ELSE Ok(<< v(1) * 4 + v(2) \div 16,
                   (v(2) % 16) * 16 + v(3) \div 4,
                   (v(3) % 4) * 64 + v(4) >> \o rest.val)

Base64_decode(s, canonical) ==
    IF Len(s) % 4 # 0 THEN Err("invalid length")
    ELSE Base64_decode_blocks(SubSeq(s, 1, Len(s) - Base64_padding(s)), canonical)

Base64_decode_vec(s) == Base64_decode(s, TRUE)

(***************************************************************************)
(* move_binary_format::CompiledModule binary form: the magic number, a     *)
(* count of what follows, and the module's tables (here: the module's      *)
(* bytes).  Deserialization rejects a wrong magic number and a count that  *)
(* does not match the data.                                                *)
(***************************************************************************)
MOVE_MAGIC == <<161, 28, 235, 11>>

CompiledModule_serialize(module) == Ok(MOVE_MAGIC \o <<Len(module)>> \o module)

CompiledModule_deserialize(data) ==
    LET h == Len(MOVE_MAGIC) IN
    IF Len(data) < h \/ SubSeq(data, 1, h) # MOVE_MAGIC THEN Err("bad magic")
    ELSE IF Len(data) < h + 1 \/ data[h + 1] # Len(data) - (h + 1) THEN Err("malformed")
    ELSE Ok(SubSeq(data, h + 2, Len(data)))

(***************************************************************************)
(* The serde format around the codec.  A self-describing format tags a     *)
(* value as a string ("str") or a sequence of u8 ("seq") and rejects a     *)
(* request for the other type; a format that is not self-describing        *)
(* ("raw") stores both as length-prefixed bytes and reads back whatever    *)
(* type is asked for.                                                      *)
(***************************************************************************)
Formats == {"self_describing", "raw"}

String_serialize(s, format) ==
    [kind |-> IF format = "raw" THEN "raw" ELSE "str", data |-> s]

Vec_u8_serialize(v, format) ==
    [kind |-> IF format = "raw" THEN "raw" ELSE "seq", data |-> v]

IsCont(b) == b >= 128 /\ b <= 191

\* std::str::from_utf8
RECURSIVE Utf8Valid(_)
Utf8Valid(b) ==
    LET n == Len(b)
        rest(k) == Utf8Valid(SubSeq(b, k + 1, n))
    IN
    IF n = 0 THEN TRUE
    ELSE IF b[1] < 128 THEN rest(1)
    ELSE IF b[1] >= 194 /\ b[1] <= 223 THEN n >= 2 /\ IsCont(b[2]) /\ rest(2)
    ELSE IF b[1] >= 224 /\ b[1] <= 239 THEN
        /\ n >= 3 /\ IsCont(b[2]) /\ IsCont(b[3])
        /\ (b[1] = 224 => b[2] >= 160)
        /\ (b[1] = 237 => b[2] <= 159)
        /\ rest(3)
    ELSE IF b[1] >= 240 /\ b[1] <= 244 THEN
        /\ n >= 4 /\ IsCont(b[2]) /\ IsCont(b[3]) /\ IsCont(b[4])
        /\ (b[1] = 240 => b[2] >= 144)
        /\ (b[1] = 244 => b[2] <= 143)
        /\ rest(4)
    ELSE FALSE

String_deserialize(rep) ==
    IF rep.kind = "str" THEN Ok(rep.data)
    ELSE IF rep.kind = "seq" THEN Err("invalid type: sequence, expected a string")
    ELSE IF Utf8Valid(rep.data) THEN Ok(rep.data)
    ELSE Err("invalid utf-8")

Vec_u8_deserialize(rep) ==
    IF rep.kind = "seq" THEN Ok(rep.data)
    ELSE IF rep.kind = "str" THEN Err("invalid type: string, expected a sequence")
    ELSE Ok(rep.data)

(***************************************************************************)
(* SerdeCompiledModule.  human_readable is serializer.is_human_readable(). *)
(***************************************************************************)
serialize_as_unpadded(module, human_readable, format) ==
    LET serialized_module == CompiledModule_serialize(module) IN
    IF ~serialized_module.ok THEN serialized_module
    ELSE IF human_readable
    THEN LET s == Base64_encode_string(serialized_module.val) IN
         Ok(String_serialize(SubSeq(s, 1, Len(s) - Base64_padding(s)), format))
    ELSE Ok(Vec_u8_serialize(serialized_module.val, format))

serialize_as(module, human_readable, format) ==
    LET serialized_module == CompiledModule_serialize(module) IN
    IF ~serialized_module.ok THEN serialized_module
    ELSE IF human_readable
    THEN Ok(String_serialize(Base64_encode_string(serialized_module.val), format))
    ELSE Ok(Vec_u8_serialize(serialized_module.val, format))

\* Slip: the binary branch also runs the bytes through the base64 decoder.
deserialize_as_always_base64(rep, human_readable) ==
    LET s == IF human_readable THEN String_deserialize(rep) ELSE Vec_u8_deserialize(rep) IN
    IF ~s.ok THEN s
    ELSE LET data == Base64_decode_vec(s.val) IN
         IF ~data.ok THEN data ELSE CompiledModule_deserialize(data.val)

\* Slip: accepts whichever representation arrives, whatever the mode.
deserialize_as_either(rep, human_readable) ==
    IF rep.kind = "str" \/ (rep.kind = "raw" /\ human_readable)
    THEN LET s == String_deserialize(rep) IN
         IF ~s.ok THEN s
         ELSE LET data == Base64_decode_vec(s.val) IN
              IF ~data.ok THEN data ELSE CompiledModule_deserialize(data.val)
    ELSE LET data == Vec_u8_deserialize(rep) IN
         IF ~data.ok THEN data ELSE CompiledModule_deserialize(data.val)

\* Slip: a base64 decoder that does not check the unused bits of the last block.
deserialize_as_lenient(rep, human_readable) ==
    IF human_readable
    THEN LET s == String_deserialize(rep) IN
         IF ~s.ok THEN s
         ELSE LET data == Base64_decode(s.val, FALSE) IN
              IF ~data.ok THEN data ELSE CompiledModule_deserialize(data.val)
    ELSE LET data == Vec_u8_deserialize(rep) IN
         IF ~data.ok THEN data ELSE CompiledModule_deserialize(data.val)

deserialize_as(rep, human_readable) ==
    IF human_readable
    THEN LET s == String_deserialize(rep) IN
         IF ~s.ok THEN s
         ELSE LET data == Base64_decode_vec(s.val) IN
              IF ~data.ok THEN data ELSE CompiledModule_deserialize(data.val)
    ELSE LET data == Vec_u8_deserialize(rep) IN
         IF ~data.ok THEN data ELSE CompiledModule_deserialize(data.val)

(***************************************************************************)
(* struct Genesis: derived Serialize / Deserialize, with the modules       *)
(* field going through Vec<Vec<SerdeCompiledModule>>.  Objects and the     *)
(* context use their own encodings, modelled as tagged values.             *)
(***************************************************************************)
Object_serialize(object) == <<"Object", object>>
Object_deserialize(rep) ==
    IF Len(rep) = 2 /\ rep[1] = "Object" THEN Ok(rep[2]) ELSE Err("invalid object")

TxContext_serialize(ctx) == <<"TxContext", ctx>>
TxContext_deserialize(rep) ==
    IF Len(rep) = 2 /\ rep[1] = "TxContext" THEN Ok(rep[2]) ELSE Err("invalid context")

Genesis_serialize(genesis, human_readable, format) ==
    LET leaf(i, j) == serialize_as(genesis.modules[i][j], human_readable, format) IN
    IF \E i \in DOMAIN genesis.modules : \E j \in DOMAIN genesis.modules[i] : ~leaf(i, j).ok
    THEN Err("encode error")
    ELSE Ok([ modules |-> [i \in DOMAIN genesis.modules |->
                              [j \in DOMAIN genesis.modules[i] |-> leaf(i, j).val]],
              objects |-> [k \in DOMAIN genesis.objects |->
                              Object_serialize(genesis.objects[k])],
              genesis_ctx |-> TxContext_serialize(genesis.genesis_ctx) ])

Genesis_deserialize(doc, human_readable) ==
    LET leaf(i, j) == deserialize_as(doc.modules[i][j], human_readable)
        obj(k) == Object_deserialize(doc.objects[k])
        ctx == TxContext_deserialize(doc.genesis_ctx)
    IN
    IF \E i \in DOMAIN doc.modules : \E j \in DOMAIN doc.modules[i] : ~leaf(i, j).ok
    THEN Err("decode error")
    ELSE IF \E k \in DOMAIN doc.objects : ~obj(k).ok THEN Err("decode error")
    ELSE IF ~ctx.ok THEN ctx
    ELSE Ok([ modules |-> [i \in DOMAIN doc.modules |->
                              [j \in DOMAIN doc.modules[i] |-> leaf(i, j).val]],
              objects |-> [k \in DOMAIN doc.objects |-> obj(k).val],
              genesis_ctx |-> ctx.val ])

(***************************************************************************)
(* State of the bundle round trip.                                         *)
(*   genesis     the Genesis value being persisted                         *)
(*   format      the serde format used on both sides                       *)
(*   persisted   Some([human_readable, doc]) once serialized               *)
(*   restored    Some([human_readable, result]) once deserialized          *)
(***************************************************************************)
VARIABLES genesis, format, persisted, restored

cvars == <<genesis, format, persisted, restored>>

(***************************************************************************)
(* State of the single-module codec.                                       *)
(*   module      the CompiledModule being encoded                          *)
(*   mformat     the serde format used on both sides                       *)
(*   wire        Some([human_readable, rep, corrupted]) once encoded       *)
(*   decoded     Some([human_readable, result, bundle]) once decoded;      *)
(*               bundle is the result of deserializing the scenario        *)
(*               bundle's document holding rep at the place of module      *)
(***************************************************************************)
VARIABLES module, mformat, wire, decoded

mvars == <<module, mformat, wire, decoded>>

CodecIdle ==
    /\ genesis = [modules |-> <<>>, objects |-> <<>>, genesis_ctx |-> get_genesis_context]
    /\ format = "self_describing"
    /\ persisted = None
    /\ restored = None

ModuleIdle ==
    /\ module = <<>>
    /\ mformat = "self_describing"
    /\ wire = None
    /\ decoded = None

vars == <<bvars, cvars, mvars>>

BuilderIdle ==
    /\ builder = Builder_default
    /\ twin = Builder_default
    /\ appended = <<>>
    /\ added = <<>>
    /\ last_ctx = None
    /\ calls = 0
    /\ outcome = Pending
    /\ outcome2 = Pending

Init == BuilderIdle /\ CodecIdle /\ ModuleIdle

CanCall == outcome.kind = "pending" /\ calls < MaxCalls

CallSuiFramework ==
    \E path \in Paths :
        /\ CanCall
        /\ builder' = sui_framework(builder, path)
        /\ twin' = sui_framework(twin, path)
        /\ calls' = calls + 1
        /\ UNCHANGED <<appended, added, last_ctx, outcome, outcome2>>
        /\ UNCHANGED <<cvars, mvars>>

CallMoveFramework ==
    \E path \in Paths :
        /\ CanCall
        /\ builder' = move_framework(builder, path)
        /\ twin' = move_framework(twin, path)
        /\ calls' = calls + 1
        /\ UNCHANGED <<appended, added, last_ctx, outcome, outcome2>>
        /\ UNCHANGED <<cvars, mvars>>

CallAddMoveModules ==
    \E modules \in GroupArgs :
        /\ CanCall
        /\ builder' = add_move_modules(builder, modules)
        /\ twin' = add_move_modules(twin, modules)
        /\ appended' = appended \o modules
        /\ calls' = calls + 1
        /\ UNCHANGED <<added, last_ctx, outcome, outcome2>>
        /\ UNCHANGED <<cvars, mvars>>

CallAddObject ==
    \E object \in Objects :
        /\ CanCall
        /\ builder' = add_object(builder, object)
        /\ twin' = add_object(twin, object)
        /\ added' = Append(added, object)
        /\ calls' = calls + 1
        /\ UNCHANGED <<appended, last_ctx, outcome, outcome2>>
        /\ UNCHANGED <<cvars, mvars>>

CallAddObjects ==
    \E objs \in ObjectLists :
        /\ CanCall
        /\ builder' = add_objects(builder, objs)
        /\ twin' = add_objects(twin, objs)
        /\ added' = added \o objs
        /\ calls' = calls + 1
        /\ UNCHANGED <<appended, last_ctx, outcome, outcome2>>
        /\ UNCHANGED <<cvars, mvars>>

CallGenesisCtx ==
    \E ctx \in Contexts :
        /\ CanCall
        /\ builder' = genesis_ctx(builder, ctx)
        /\ twin' = genesis_ctx(twin, ctx)
        /\ last_ctx' = Some(ctx)
        /\ calls' = calls + 1
        /\ UNCHANGED <<appended, added, outcome, outcome2>>
        /\ UNCHANGED <<cvars, mvars>>

\* add_validator on the builder only: the twin's call sequence lacks it.
CallAddValidator ==
    \E v \in ValidatorArgs :
        /\ CanCall
        /\ builder' = add_validator(builder, v[1], v[2])
        /\ calls' = calls + 1
        /\ UNCHANGED <<twin, appended, added, last_ctx, outcome, outcome2>>
        /\ UNCHANGED <<cvars, mvars>>

\* add_validator on the twin only.
CallAddValidatorTwin ==
    \E v \in ValidatorArgs :
        /\ CanCall
        /\ twin' = add_validator(twin, v[1], v[2])
        /\ calls' = calls + 1
        /\ UNCHANGED <<builder, appended, added, last_ctx, outcome, outcome2>>
        /\ UNCHANGED <<cvars, mvars>>

\* build(self) consumes the builder: nothing can be called afterwards.
CallBuild ==
    /\ outcome.kind = "pending"
    /\ outcome' = build(builder)
    /\ outcome2' = build(twin)
    /\ UNCHANGED <<builder, twin, appended, added, last_ctx, calls>>
    /\ UNCHANGED <<cvars, mvars>>

Next ==
    \/ CallSuiFramework
    \/ CallMoveFramework
    \/ CallAddMoveModules
    \/ CallAddObject
    \/ CallAddObjects
    \/ CallGenesisCtx
    \/ CallAddValidator
    \/ CallAddValidatorTwin
    \/ CallBuild

Spec == Init /\ [][Next]_vars

(***************************************************************************)
(* Persisting a Genesis value: serialize it in one mode through a format,  *)
(* then deserialize the document in a mode through the same format.        *)
(***************************************************************************)
\* Number of module groups of a persisted Genesis value.
MaxGroups == 2

SampleGroups ==
    { <<>>, <<ModD>>, <<ModD, ModE>>, <<ModE, ModD>>, <<ModA, ModB, ModC>> }

SampleObjects == { <<>>, <<"o1", "o2">>, <<"o2", "o1">> }

GenesisInputs ==
    [ modules : UNION { [1..n -> SampleGroups] : n \in 0..MaxGroups },
      objects : SampleObjects,
      genesis_ctx : Contexts \cup {get_genesis_context} ]

InitCodec ==
    /\ BuilderIdle
    /\ ModuleIdle
    /\ genesis \in GenesisInputs
    /\ format \in Formats
    /\ persisted = None
    /\ restored = None

Serialize ==
    \E human_readable \in BOOLEAN :
        /\ persisted = None
        /\ persisted' = Some([ human_readable |-> human_readable,
                               doc |-> Genesis_serialize(genesis, human_readable, format) ])
        /\ UNCHANGED <<genesis, format, restored>>
        /\ UNCHANGED <<bvars, mvars>>

Deserialize ==
    \E human_readable \in BOOLEAN :
        /\ is_some(persisted)
        /\ unwrap(persisted).doc.ok
        /\ restored = None
        /\ restored' = Some([ human_readable |-> human_readable,
                              result |-> Genesis_deserialize(unwrap(persisted).doc.val,
                                                             human_readable) ])
        /\ UNCHANGED <<genesis, format, persisted>>
        /\ UNCHANGED <<bvars, mvars>>

NextCodec ==
    \/ Serialize
    \/ Deserialize

SpecCodec == InitCodec /\ [][NextCodec]_vars

(***************************************************************************)
(* Encoding one module, possibly corrupting one character of its text,     *)
(* and decoding it, alone and inside the document of the bundle            *)
(* [[A, B], [C], [module, E]].                                             *)
(***************************************************************************)
\* Number of bytes of a module's tables.
MaxBodyLen == 2

ByteSamples == {0, 65, 255}

Modules == UNION { [1..n -> ByteSamples] : n \in 0..MaxBodyLen }

\* The alphabet, the padding character, and '!', ' ', '-', '_'.
CorruptChars == { Base64_char(v) : v \in 0..63 } \cup {PadChar, 33, 32, 45, 95}

ScenarioGenesis(D) ==
    [ modules |-> << <<ModA, ModB>>, <<ModC>>, <<D, ModE>> >>,
      objects |-> <<>>,
      genesis_ctx |-> get_genesis_context ]

\* The scenario's document with the given representation at the place of D.
ScenarioDoc(D, rep, human_readable, fmt) ==
    LET doc == Genesis_serialize(ScenarioGenesis(D), human_readable, fmt).val
    IN  [doc EXCEPT !.modules[3][1] = rep]

InitModule ==
    /\ BuilderIdle
    /\ CodecIdle
    /\ module \in Modules
    /\ mformat \in Formats
    /\ wire = None
    /\ decoded = None

Encode ==
    \E human_readable \in BOOLEAN :
        /\ wire = None
        /\ serialize_as(module, human_readable, mformat).ok
        /\ wire' = Some([ human_readable |-> human_readable,
                          rep |-> serialize_as(module, human_readable, mformat).val,
                          corrupted |-> FALSE ])
        /\ UNCHANGED <<module, mformat, decoded>>
        /\ UNCHANGED <<bvars, cvars>>

Corrupt ==
    /\ is_some(wire)
    /\ unwrap(wire).human_readable
    /\ ~unwrap(wire).corrupted
    /\ decoded = None
    /\ \E i \in DOMAIN unwrap(wire).rep.data :
       \E c \in CorruptChars \ {unwrap(wire).rep.data[i]} :
           wire' = Some([ unwrap(wire) EXCEPT !.rep.data[i] = c, !.corrupted = TRUE ])
    /\ UNCHANGED <<module, mformat, decoded>>
    /\ UNCHANGED <<bvars, cvars>>

Decode ==
    \E human_readable \in BOOLEAN :
        /\ is_some(wire)
        /\ decoded = None
        /\ decoded' = Some([ human_readable |-> human_readable,
                             result |-> deserialize_as(unwrap(wire).rep, human_readable),
                             bundle |-> Genesis_deserialize(
                                            ScenarioDoc(module, unwrap(wire).rep,
                                                        unwrap(wire).human_readable, mformat),
                                            human_readable) ])
        /\ UNCHANGED <<module, mformat, wire>>
        /\ UNCHANGED <<bvars, cvars>>

NextModule ==
    \/ Encode
    \/ Corrupt
    \/ Decode

SpecModule == InitModule /\ [][NextModule]_vars

(***************************************************************************)
(* Properties of the builder (specification Spec).                         *)
(***************************************************************************)
BuiltOk == outcome.kind = "ok"
Bundle == unwrap(outcome.genesis)

\* What the two loaders return for the recorded sources (both succeed).
LoadedGroups ==
    << get_move_stdlib_modules(unwrap(builder.move_framework)).val,
       get_sui_framework_modules(unwrap(builder.sui_framework)).val >>

\* C1: when build() succeeds, module_groups is [stdlib group, framework
\* group] followed by every caller-supplied group in the order appended,
\* whatever the interleaving of the other calls.
C1_GroupOrder ==
    BuiltOk => Bundle.modules = LoadedGroups \o appended

\* C2: add_module_groups appends: the builder's caller-supplied groups are
\* always all the groups passed so far, in call order, and build() places
\* them after the first two groups.
C2_AddModuleGroupsAppends ==
    /\ builder.move_modules = appended
    /\ BuiltOk => SubSeq(Bundle.modules, 3, Len(Bundle.modules)) = appended

SourceMissing == ~is_some(builder.sui_framework) \/ ~is_some(builder.move_framework)

\* C5 as stated: build() without one of the two sources returns the error
\* SourceMissing as a value; it neither crashes nor returns a bundle.
C5_SourceMissingAsValue ==
    (outcome.kind # "pending" /\ SourceMissing) =>
        (outcome.kind = "err" /\ outcome.error = "SourceMissing")

\* C5 amended: build() without one of the two sources terminates
\* abnormally (an unwrap panics) and returns no bundle.
C5_SourceMissingPanics ==
    (outcome.kind # "pending" /\ SourceMissing) =>
        (outcome.kind = "panic" /\ outcome.genesis = None)

C5_Witness ==
    /\ outcome.kind = "panic"
    /\ ~is_some(builder.sui_framework)
    /\ builder.move_framework = Some(GoodPath)
    /\ Len(builder.objects) > 0

\* C8: two call sequences differing only in their add_validator calls end
\* build() the same way, with equal bundles.
C8_ValidatorsInert == outcome = outcome2

C8_Witness ==
    /\ BuiltOk
    /\ Len(builder.validators) > 0
    /\ Len(twin.validators) > 0
    /\ builder.validators # twin.validators

\* C9: the bundle's objects are the arguments of all add_object and
\* add_objects calls concatenated in call order.
C9_ObjectsInCallOrder == BuiltOk => Bundle.objects = added

C9_Witness ==
    /\ BuiltOk
    /\ added = <<"o1", "o2", "o1">>

\* C10: the bundle's genesis_context is the argument of the latest
\* set_genesis_context call, and then the default provider is not called;
\* without such a call it is the provider's value.
C10_GenesisContext ==
    BuiltOk =>
        IF is_some(last_ctx)
        THEN Bundle.genesis_ctx = unwrap(last_ctx) /\ outcome.provider_calls = 0
        ELSE Bundle.genesis_ctx = get_genesis_context /\ outcome.provider_calls = 1

C10_Witness ==
    /\ BuiltOk
    /\ last_ctx = Some("ctx2")
    /\ calls = 4
    /\ added = <<>> /\ appended = <<>>
    /\ builder.validators = <<>> /\ twin.validators = <<>>

(***************************************************************************)
(* Properties of the bundle round trip (specification SpecCodec).          *)
(***************************************************************************)
RoundTrip(human_readable) ==
    /\ is_some(restored)
    /\ unwrap(persisted).human_readable = human_readable
    /\ unwrap(restored).human_readable = human_readable

RichGenesis ==
    /\ Len(genesis.modules) = 2
    /\ genesis.modules[1] = <<ModA, ModB, ModC>>
    /\ genesis.modules[2] = <<ModE, ModD>>
    /\ genesis.objects = <<"o2", "o1">>

\* C3: serializing any Genesis in human-readable mode and deserializing
\* the result in human-readable mode succeeds and yields an equal Genesis.
C3_RoundTripText ==
    RoundTrip(TRUE) =>
        (unwrap(restored).result.ok /\ unwrap(restored).result.val = genesis)

C3_Witness == RoundTrip(TRUE) /\ RichGenesis /\ unwrap(restored).result.ok

\* C4: serializing any Genesis in binary mode and deserializing the result
\* in binary mode succeeds and yields an equal Genesis, orders included.
C4_RoundTripBinary ==
    RoundTrip(FALSE) =>
        (unwrap(restored).result.ok /\ unwrap(restored).result.val = genesis)

C4_Witness == RoundTrip(FALSE) /\ RichGenesis /\ unwrap(restored).result.ok

(***************************************************************************)
(* Properties of the module codec (specification SpecModule).              *)
(***************************************************************************)
\* RFC 4648 text with padding: whole blocks of four characters, alphabet
\* characters followed by at most two '=', unused bits of the last
\* character zero.
WellFormedBase64(s) ==
    LET n == Len(s)
        p == Base64_padding(s)
    IN  /\ n % 4 = 0
        /\ \A i \in 1..(n - p) : Base64_value(s[i]) >= 0
        /\ p = 1 => Base64_value(s[n - 1]) % 4 = 0
        /\ p = 2 => Base64_value(s[n - 2]) % 16 = 0

Wire == unwrap(wire)
Decoded == unwrap(decoded)

\* C6: a representation encoded in one mode never decodes in the other
\* mode: the decode fails.
C6_CrossModeFails ==
    (is_some(decoded) /\ ~Wire.corrupted /\ Wire.human_readable # Decoded.human_readable)
        => (~Decoded.result.ok /\ ~Decoded.bundle.ok)

C6_Witness ==
    /\ is_some(decoded)
    /\ ~Wire.corrupted
    /\ Wire.human_readable /\ ~Decoded.human_readable
    /\ mformat = "raw"
    /\ module = ModD
    /\ ~Decoded.result.ok

TextDecode == is_some(decoded) /\ Wire.human_readable /\ Decoded.human_readable

\* C7 as stated: text that is not valid base64 fails to decode, and a
\* bundle text with one corrupted payload character fails to deserialize.
C7_CorruptionRejected ==
    TextDecode =>
        /\ ~WellFormedBase64(Wire.rep.data) => ~Decoded.result.ok
        /\ Wire.corrupted => ~Decoded.bundle.ok

\* C7 amended: text that is not valid base64 fails to decode; a bundle
\* text with one corrupted payload character fails to deserialize when the
\* payload is no longer valid base64 or its bytes are not a well-formed
\* module, and otherwise deserializes to the bundle holding, at that
\* place, the module the corrupted bytes encode.
C7_MalformedRejected ==
    TextDecode =>
        LET text == Wire.rep.data
            m == CompiledModule_deserialize(Base64_decode_vec(text).val)
        IN
        /\ ~WellFormedBase64(text) => ~Decoded.result.ok
        /\ Wire.corrupted =>
              IF ~WellFormedBase64(text) THEN ~Decoded.bundle.ok
              ELSE IF ~m.ok THEN ~Decoded.bundle.ok
              ELSE /\ Decoded.bundle.ok
                   /\ Decoded.bundle.val = ScenarioGenesis(m.val)

C7_Witness ==
    /\ TextDecode
    /\ Wire.corrupted
    /\ module = ModD
    /\ ~WellFormedBase64(Wire.rep.data)
    /\ ~Decoded.result.ok
    /\ ~Decoded.bundle.ok

====
